---------------------------- MODULE Spec2Model ----------------------------
(***************************************************************************)
(* Model of the MCP23008 I2C GPIO-expander driver                          *)
(* (src/devices/MCP23008/MCP23008.hpp: class declaration followed by the   *)
(* implementation).                                                        *)
(*                                                                         *)
(* The driver is modelled statement by statement: every mutex operation    *)
(* and every I2C transaction is one step of the calling thread, so that    *)
(* threads interleave exactly where the code can be preempted with an      *)
(* observable effect.  The chip on the other end of the bus is modelled    *)
(* as the register file the driver's doc comments describe: eleven 8-bit   *)
(* registers and one register-address pointer; a write to GPIO lands in    *)
(* the output latch OLAT, a read of GPIO returns the port (the latch on     *)
(* output pins, the applied level on input pins, through the IPOL          *)
(* polarity), INTF and INTCAP are read-only.                               *)
(***************************************************************************)
EXTENDS Integers, Sequences, FiniteSets, TLC

(***************************************************************************)
(* uint8_t arithmetic.                                                     *)
(***************************************************************************)
Byte == 0..255

RECURSIVE BitAnd(_, _, _)
BitAnd(x, y, n) ==
    IF n = 0 THEN 0
    ELSE (IF x % 2 = 1 /\ y % 2 = 1 THEN 1 ELSE 0)
         + 2 * BitAnd(x \div 2, y \div 2, n - 1)

\* a & b on uint8_t
And(a, b) == BitAnd(a, b, 8)

\* (uint8_t) ~a
Not(a) == 255 - a

\* a | b on uint8_t
Or(a, b) == a + b - And(a, b)

\* a ^ b on uint8_t
Xor(a, b) == Or(a, b) - And(a, b)

(***************************************************************************)
(* Program constants.                                                      *)
(***************************************************************************)
MCP23008_ADDRESS == 64

IODIR   == 0
IPOL    == 1
GPINTEN == 2
DEFVAL  == 3
INTCON  == 4
IOCON   == 5
GPPU    == 6
INTF    == 7
INTCAP  == 8
GPIO    == 9
OLAT    == 10

Registers == IODIR..OLAT

Pin_GP0 == 1
Pin_GP7 == 128
Pin_All == 255

Frequency_100KHz  == 100000
Frequency_400KHz  == 400000
Frequency_1700KHz == 1700000

Frequency == {Frequency_100KHz, Frequency_400KHz, Frequency_1700KHz}

\* IOCON.SEQOP: when set the chip's address pointer does not increment
IOCON_SEQOP == 32

(***************************************************************************)
(* Bounds of the model.                                                    *)
(***************************************************************************)
\* calls a thread makes after construction in the sequential specification
MaxCalls == 2
\* calls the constructing thread makes in the construction specification
MaxCtorCalls == 1
\* calls each thread makes in the concurrent specification
MaxConcCalls == 1
\* calls the thread makes in the interrupt-configuration specification
MaxIrqCalls == 3
\* calls the thread makes in the pin-handle specification
MaxPinCalls == 3
\* calls each thread makes in the pull-up mode specification
MaxModeCalls == 2
\* calls each thread makes in the specification with a fair scheduler
MaxLiveCalls == 1
\* largest address strap tried at construction (8 and above are invalid)
MaxStrap == 9

Threads == {1, 2}

VARIABLES
    address,      \* constructor argument: the A2..A0 strap value
    freq,         \* constructor argument: the requested bus frequency
    i2c_freq,     \* frequency given to i2c.frequency(); 0: never called
    i2c_address,  \* MCP23008::i2c_address
    chip,         \* the chip's register file, Registers -> Byte
    ptr,          \* the chip's register-address pointer
    pins,         \* the levels applied from outside to the eight port pins
    mutex,        \* MCP23008::mutex: [owner, count]; owner 0: free
    th,           \* per thread: where it is in the call it is executing
    hist          \* per thread: the calls that returned, oldest first

vars == <<address, freq, i2c_freq, i2c_address, chip, ptr, pins, mutex, th, hist>>

(***************************************************************************)
(* The chip (the other end of the bus).                                    *)
(***************************************************************************)
\* a register write as the chip takes it
ChipWrite(c, reg, v) ==
    IF reg = INTF \/ reg = INTCAP THEN c
    ELSE IF reg = GPIO THEN [c EXCEPT ![OLAT] = v]
    ELSE [c EXCEPT ![reg] = v]

\* the levels on the port: a pin configured as an output (IODIR bit 0) is
\* driven from the output latch, a pin configured as an input carries the
\* level p that is applied to it from outside
PortLevels(c, p) == Or(And(p, c[IODIR]), And(c[OLAT], Not(c[IODIR])))

\* a register read as the chip answers it: GPIO reads the port through the
\* input polarity
ChipRead(c, p, reg) ==
    IF reg = GPIO THEN Xor(PortLevels(c, p), c[IPOL]) ELSE c[reg]

\* the address pointer after a data byte was transferred at register reg
NextPtr(c, reg) ==
    IF And(c[IOCON], IOCON_SEQOP) # 0 THEN reg ELSE (reg + 1) % 11

\* the register file after the chip answered a read of register reg: a read
\* of GPIO or INTCAP clears the interrupt condition
ChipAfterRead(c, reg) ==
    IF reg = GPIO \/ reg = INTCAP THEN [c EXCEPT ![INTF] = 0] ELSE c

\* register contents at power-on
PowerOnChip == [r \in Registers |-> IF r = IODIR THEN 255 ELSE 0]

\* register contents left by an earlier run of an application (the
\* microcontroller restarted, the chip stayed powered)
LeftoverChip ==
    [r \in Registers |->
        CASE r = IODIR   -> 15
          [] r = IPOL    -> 3
          [] r = GPINTEN -> 129
          [] r = DEFVAL  -> 1
          [] r = INTCON  -> 128
          [] r = IOCON   -> 0
          [] r = GPPU    -> 129
          [] r = INTF    -> 128
          [] r = INTCAP  -> 129
          [] r = GPIO    -> 0
          [] r = OLAT    -> 48]

PriorChips == {PowerOnChip, LeftoverChip}

\* the levels the port pins may be held at by what is wired to them
PinLevels == {0, 165}

(***************************************************************************)
(* Calls: what a thread may ask of the driver.                             *)
(***************************************************************************)
Masks  == {Pin_GP0, Pin_GP7, 129}
Values == {0, 165, Pin_All}
Pins   == {Pin_GP0, Pin_GP7}
PinModes == {"PullNone", "PullUp", "PullDown"}
WriteValues == {0, 1}

Call(op, arg, val, pull) == [op |-> op, arg |-> arg, val |-> val, pull |-> pull]

MaskOps   == {"set_input_pins", "set_output_pins", "interrupt_on_changes",
              "disable_interrupts"}
ValueOps  == {"write_outputs", "set_input_polarity", "set_pullups"}
GetterOps == {"read_outputs", "read_inputs", "get_input_polarity", "get_pullups"}
PinOps    == {"as_input", "as_output", "as_input_output", "read", "output", "input"}

MaskCalls == {Call(o, m, 0, "-") : o \in MaskOps, m \in Masks}
ValueCalls == {Call(o, v, 0, "-") : o \in ValueOps, v \in Values}
GetCalls ==
    {Call(o, 0, 0, "-") : o \in GetterOps} \cup {Call("acknowledge_interrupt", 0, 0, "-")}
HandleCalls ==
    {Call(o, p, 0, "-") : o \in PinOps, p \in Pins}
    \cup {Call("mode", p, 0, m) : p \in Pins, m \in PinModes}
    \cup {Call("write", p, v, "-") : p \in Pins, v \in WriteValues}

AllCalls == MaskCalls \cup ValueCalls \cup GetCalls \cup HandleCalls

(***************************************************************************)
(* Thread state.                                                           *)
(*   pc     "off" (thread not used), "new" (before the constructor),       *)
(*          "reset" (in the constructor's reset()), "idle", "call",        *)
(*          "fatal" (stopped in error()), "assert" (stopped in             *)
(*          MBED_ASSERT)                                                   *)
(*   stage  the statement of the operation's body the thread is at; 0: the *)
(*          body is finished and the call is about to return               *)
(*   rr     where the thread is inside read_register                       *)
(*   value, pin   the locals / out-parameters of the operation             *)
(*   tx     the bus transactions the call has issued so far                *)
(*   pre    the register file when the call began                          *)
(***************************************************************************)
Thread(pcv, c, pre) ==
    [pc |-> pcv, op |-> c.op, arg |-> c.arg, val |-> c.val, pull |-> c.pull,
     stage |-> 1, rr |-> "-", value |-> 0, pin |-> 0, tx |-> <<>>, pre |-> pre]

NoCall == Call("-", 0, 0, "-")

Off  == [Thread("off", NoCall, PowerOnChip) EXCEPT !.stage = 0]
Idle == [Thread("idle", NoCall, PowerOnChip) EXCEPT !.stage = 0]

Tx(kind, reg, v, ack) ==
    [kind |-> kind, addr |-> i2c_address, reg |-> reg, val |-> v, ack |-> ack]

\* the outcomes of a bus transaction: acknowledged or not
Acks == {TRUE, FALSE}

(***************************************************************************)
(* PlatformMutex (rtos::Mutex: recursive).                                 *)
(***************************************************************************)
MutexFree == [owner |-> 0, count |-> 0]

\* a variant of the mutex that is not recursive
CanLock_nonrecursive(t) == mutex.owner = 0

CanLock(t) == mutex.owner = 0 \/ mutex.owner = t

Locked(t) == [owner |-> t, count |-> mutex.count + 1]

Unlocked(t) ==
    IF mutex.count <= 1 THEN MutexFree ELSE [mutex EXCEPT !.count = @ - 1]

(***************************************************************************)
(* Register protocol layer.                                                *)
(***************************************************************************)
\* a variant of error() that returns to its caller
FatalIgnored(t, entry) == [th EXCEPT ![t].tx = Append(@, entry)]

\* error(...): the thread stops where it is, holding what it holds
Fatal(t, entry) == [th EXCEPT ![t].pc = "fatal", ![t].tx = Append(@, entry)]

\* uint8_t MCP23008::read_register(uint8_t reg); the byte read goes to the
\* caller's local dest and the caller continues at statement next
read_register(t, reg, dest, next) ==
    \/ /\ th[t].rr = "-"                     \* mutex.lock()
       /\ CanLock(t)
       /\ mutex' = Locked(t)
       /\ th' = [th EXCEPT ![t].rr = "locked"]
       /\ UNCHANGED <<chip, ptr>>
    \/ /\ th[t].rr = "locked"                \* i2c.write(i2c_address, data, 1)
       /\ \E ack \in Acks :
            IF ack
            THEN /\ ptr' = reg
                 /\ th' = [th EXCEPT ![t].rr = "selected",
                                     ![t].tx = Append(@, Tx("select", reg, reg, TRUE))]
            ELSE /\ ptr' = ptr
                 /\ th' = Fatal(t, Tx("select", reg, reg, FALSE))
       /\ UNCHANGED <<chip, mutex>>
    \/ /\ th[t].rr = "selected"              \* i2c.read(i2c_address, data, 1)
       /\ \E ack \in Acks :
            IF ack
            THEN /\ ptr' = NextPtr(chip, ptr)
                 /\ chip' = ChipAfterRead(chip, ptr)
                 /\ th' = [th EXCEPT ![t].rr = "read",
                                     ![t][dest] = ChipRead(chip, pins, ptr),
                                     ![t].tx = Append(@, Tx("read", ptr,
                                                   ChipRead(chip, pins, ptr), TRUE))]
            ELSE /\ UNCHANGED <<ptr, chip>>
                 /\ th' = Fatal(t, Tx("read", ptr, 0, FALSE))
       /\ UNCHANGED mutex
    \/ /\ th[t].rr = "read"                  \* mutex.unlock(); return data[0]
       /\ mutex' = Unlocked(t)
       /\ th' = [th EXCEPT ![t].rr = "-", ![t].stage = next]
       /\ UNCHANGED <<chip, ptr>>

\* void MCP23008::write_register(uint8_t reg, uint8_t value); the caller
\* continues at statement next
write_register(t, reg, v, next) ==
    \E ack \in Acks :                        \* i2c.write(i2c_address, data, 2)
        /\ IF ack
           THEN /\ chip' = ChipWrite(chip, reg, v)
                /\ ptr' = NextPtr(ChipWrite(chip, reg, v), reg)
                /\ th' = [th EXCEPT ![t].stage = next,
                                    ![t].tx = Append(@, Tx("write", reg, v, TRUE))]
           ELSE /\ UNCHANGED <<chip, ptr>>
                /\ th' = Fatal(t, Tx("write", reg, v, FALSE))
        /\ UNCHANGED mutex

InCall(t, op) == th[t].pc = "call" /\ th[t].op = op

Frame == UNCHANGED <<address, freq, i2c_freq, i2c_address, pins, hist>>

(***************************************************************************)
(* Construction.                                                           *)
(***************************************************************************)
\* a variant of the address computation without the shift
DeviceAddress_unshifted(a) == Or(MCP23008_ADDRESS, a % 256)

\* i2c_address ( MCP23008_ADDRESS | (address << 1) ), kept in a uint8_t
DeviceAddress(a) == Or(MCP23008_ADDRESS, (a * 2) % 256)

\* a variant of the range check that is off by one
address_over_eight(a) == a > 8

\* if ( address > 7 ) error ( ... )
address_out_of_range(a) == a > 7

\* MCP23008::MCP23008: the member initialisers, the range check and
\* i2c.frequency(); reset() follows in steps of its own
MCP23008(t) ==
    /\ th[t].pc = "new"
    /\ i2c_address' = DeviceAddress(address)
    /\ IF address_out_of_range(address)
       THEN /\ th' = [th EXCEPT ![t].pc = "fatal"]
            /\ i2c_freq' = i2c_freq
       ELSE /\ th' = [th EXCEPT ![t].pc = "reset", ![t].stage = 1]
            /\ i2c_freq' = freq
    /\ UNCHANGED <<address, freq, chip, ptr, pins, mutex, hist>>

\* a variant of reset() whose loop starts one register late, at GPINTEN
reset_reg_late(n) == IF n = 1 THEN IODIR ELSE GPINTEN + (n - 2)

\* a variant of reset() that writes 0 to every register, IODIR included
reset_value_zero(n) == 0

\* the register and the value of the n-th write of reset(): IODIR with 0xFF,
\* then reg = IPOL .. OLAT with 0
reset_reg(n) == IF n = 1 THEN IODIR ELSE IPOL + (n - 2)
reset_value(n) == IF n = 1 THEN 255 ELSE 0

\* the loop condition of reset() after the n-th write: reg <= OLAT
reset_more(n) == n = 1 \/ reset_reg(n) + 1 <= OLAT

\* void MCP23008::reset(): one write_register per step
reset(t) ==
    /\ th[t].pc = "reset"
    /\ (th[t].stage = 1 \/ reset_more(th[t].stage - 1))
    /\ write_register(t, reset_reg(th[t].stage), reset_value(th[t].stage),
                      th[t].stage + 1)
    /\ Frame

\* the constructor returns once the loop of reset() ends
Constructed(t) ==
    /\ th[t].pc = "reset"
    /\ th[t].stage > 1
    /\ ~reset_more(th[t].stage - 1)
    /\ th' = [th EXCEPT ![t] = Idle]
    /\ UNCHANGED <<address, freq, i2c_freq, i2c_address, chip, ptr, pins, mutex, hist>>

(***************************************************************************)
(* The expander's public operations.                                       *)
(***************************************************************************)
\* a variant of set_input_pins that masks instead of adding: value & pins
input_bits_and(value, pinmask) == And(value, pinmask)

\* value | pins, as set_input_pins writes it back
input_bits(value, pinmask) == Or(value, pinmask)

\* a variant of set_output_pins that replaces the register: ~pins
output_bits_replace(value, pinmask) == Not(pinmask)

\* value & ~pins, as set_output_pins writes it back
output_bits(value, pinmask) == And(value, Not(pinmask))

\* the body of set_input_pins ( pins )
set_input_pins_body(t) ==
    \/ /\ th[t].stage = 1 /\ read_register(t, IODIR, "value", 2)
    \/ /\ th[t].stage = 2
       /\ write_register(t, IODIR, input_bits(th[t].value, th[t].arg), 0)

\* the body of set_output_pins ( pins )
set_output_pins_body(t) ==
    \/ /\ th[t].stage = 1 /\ read_register(t, IODIR, "value", 2)
    \/ /\ th[t].stage = 2
       /\ write_register(t, IODIR, output_bits(th[t].value, th[t].arg), 0)

set_input_pins(t) == InCall(t, "set_input_pins") /\ set_input_pins_body(t) /\ Frame

set_output_pins(t) == InCall(t, "set_output_pins") /\ set_output_pins_body(t) /\ Frame

\* a variant of write_outputs that writes the direction register
write_outputs_dir == IODIR

\* the register write_outputs writes
write_outputs_reg == GPIO

\* a variant of read_outputs that reads the port instead of the latch
read_outputs_port == GPIO

\* the register read_outputs reads
read_outputs_reg == OLAT

write_outputs(t) ==
    /\ InCall(t, "write_outputs") /\ th[t].stage = 1
    /\ write_register(t, write_outputs_reg, th[t].arg, 0)
    /\ Frame

read_outputs(t) ==
    /\ InCall(t, "read_outputs") /\ th[t].stage = 1
    /\ read_register(t, read_outputs_reg, "value", 0)
    /\ Frame

read_inputs(t) ==
    /\ InCall(t, "read_inputs") /\ th[t].stage = 1
    /\ read_register(t, GPIO, "value", 0)
    /\ Frame

set_input_polarity(t) ==
    /\ InCall(t, "set_input_polarity") /\ th[t].stage = 1
    /\ write_register(t, IPOL, th[t].arg, 0)
    /\ Frame

get_input_polarity(t) ==
    /\ InCall(t, "get_input_polarity") /\ th[t].stage = 1
    /\ read_register(t, IPOL, "value", 0)
    /\ Frame

set_pullups(t) ==
    /\ InCall(t, "set_pullups") /\ th[t].stage = 1
    /\ write_register(t, GPPU, th[t].arg, 0)
    /\ Frame

get_pullups(t) ==
    /\ InCall(t, "get_pullups") /\ th[t].stage = 1
    /\ read_register(t, GPPU, "value", 0)
    /\ Frame

\* value &= ~pins, as interrupt_on_changes writes INTCON back
intcon_bits(value, pinmask) == And(value, Not(pinmask))

\* value |= pins, as interrupt_on_changes writes GPINTEN back
enable_bits(value, pinmask) == Or(value, pinmask)

interrupt_on_changes(t) ==
    /\ InCall(t, "interrupt_on_changes")
    /\ \/ /\ th[t].stage = 1 /\ read_register(t, INTCON, "value", 2)
       \/ /\ th[t].stage = 2
          /\ write_register(t, INTCON, intcon_bits(th[t].value, th[t].arg), 3)
       \/ /\ th[t].stage = 3 /\ read_register(t, GPINTEN, "value", 4)
       \/ /\ th[t].stage = 4
          /\ write_register(t, GPINTEN, enable_bits(th[t].value, th[t].arg), 0)
    /\ Frame

\* a variant of disable_interrupts that clears the whole register
disable_bits_all(value, pinmask) == 0

\* value &= ~pins, as disable_interrupts writes GPINTEN back
disable_bits(value, pinmask) == And(value, Not(pinmask))

disable_interrupts(t) ==
    /\ InCall(t, "disable_interrupts")
    /\ \/ /\ th[t].stage = 1 /\ read_register(t, GPINTEN, "value", 2)
       \/ /\ th[t].stage = 2
          /\ write_register(t, GPINTEN, disable_bits(th[t].value, th[t].arg), 0)
    /\ Frame

\* a variant of acknowledge_interrupt that reads the capture register first
acknowledge_reg_swapped(n) == IF n = 1 THEN INTCAP ELSE INTF

\* the register the n-th statement of acknowledge_interrupt reads:
\* pin = read_register ( INTF ); values = read_register ( INTCAP )
acknowledge_reg(n) == IF n = 1 THEN INTF ELSE INTCAP

acknowledge_interrupt(t) ==
    /\ InCall(t, "acknowledge_interrupt")
    /\ \/ /\ th[t].stage = 1 /\ read_register(t, acknowledge_reg(1), "pin", 2)
       \/ /\ th[t].stage = 2 /\ read_register(t, acknowledge_reg(2), "value", 0)
    /\ Frame

(***************************************************************************)
(* Pin handles (ExpandedIO and the three classes built on it).             *)
(***************************************************************************)
\* ExpandedIO::read: _parent.read_inputs() & _pin
ExpandedIO_read(t) ==
    /\ InCall(t, "read") /\ th[t].stage = 1
    /\ read_register(t, GPIO, "value", 0)
    /\ Frame

\* a variant of mode() that does not merge with the pull-ups it read
mode_bits_alone(pullups, pin, pull) == IF pull = "PullUp" THEN pin ELSE 0

\* the pull-up byte mode(pull) writes back
mode_bits(pullups, pin, pull) ==
    IF pull = "PullNone" THEN And(pullups, Not(pin))
    ELSE IF pull = "PullUp" THEN Or(pullups, pin)
    ELSE pullups

\* a variant of mode() whose assertion never fails
mode_assert_off(pull) == TRUE

\* MBED_ASSERT(pull != PullDown), in a build that keeps assertions (no NDEBUG)
mode_assert(pull) == pull # "PullDown"

\* a variant of mode() that does not take the mutex
mode_lock_skipped(t) == mutex

\* _parent.mutex.lock() in mode()
mode_lock(t) == Locked(t)

\* ExpandedIO::mode
ExpandedIO_mode(t) ==
    /\ InCall(t, "mode")
    /\ \/ /\ th[t].stage = 1              \* MBED_ASSERT(pull != PullDown)
          /\ th' = IF mode_assert(th[t].pull)
                   THEN [th EXCEPT ![t].stage = 2]
                   ELSE [th EXCEPT ![t].pc = "assert"]
          /\ UNCHANGED <<chip, ptr, mutex>>
       \/ /\ th[t].stage = 2              \* _parent.mutex.lock()
          /\ CanLock(t)
          /\ mutex' = mode_lock(t)
          /\ th' = [th EXCEPT ![t].stage = 3]
          /\ UNCHANGED <<chip, ptr>>
       \/ /\ th[t].stage = 3              \* pullups = _parent.get_pullups()
          /\ read_register(t, GPPU, "value", 4)
       \/ /\ th[t].stage = 4              \* _parent.set_pullups(pullups)
          /\ write_register(t, GPPU,
                            mode_bits(th[t].value, th[t].arg, th[t].pull), 5)
       \/ /\ th[t].stage = 5              \* _parent.mutex.unlock()
          /\ mutex' = Unlocked(t)
          /\ th' = [th EXCEPT ![t].stage = 0]
          /\ UNCHANGED <<chip, ptr>>
    /\ Frame

\* a variant of write() that does not merge with the outputs it read
write_bits_alone(outputs, pin, value) == IF value # 0 THEN pin ELSE 0

\* the output byte write(value) writes back
write_bits(outputs, pin, value) ==
    IF value # 0 THEN Or(outputs, pin) ELSE And(outputs, Not(pin))

\* ExpandedIO::write
ExpandedIO_write(t) ==
    /\ InCall(t, "write")
    /\ \/ /\ th[t].stage = 1              \* outputs = _parent.read_outputs()
          /\ read_register(t, read_outputs_reg, "value", 2)
       \/ /\ th[t].stage = 2              \* _parent.write_outputs(...)
          /\ write_register(t, write_outputs_reg,
                            write_bits(th[t].value, th[t].arg, th[t].val), 0)
    /\ Frame

\* ExpandedIO::output: _parent.set_output_pins(_pin)
ExpandedIO_output(t) == InCall(t, "output") /\ set_output_pins_body(t) /\ Frame

\* ExpandedIO::input: _parent.set_input_pins(_pin)
ExpandedIO_input(t) == InCall(t, "input") /\ set_input_pins_body(t) /\ Frame

\* as_input: ExpandedInput's constructor runs internal_input()
as_input(t) == InCall(t, "as_input") /\ set_input_pins_body(t) /\ Frame

\* as_output: ExpandedOutput's constructor runs internal_output()
as_output(t) == InCall(t, "as_output") /\ set_output_pins_body(t) /\ Frame

\* a variant of ExpandedInputOutput whose constructor runs input()
as_input_output_as_input(t) ==
    InCall(t, "as_input_output") /\ set_input_pins_body(t) /\ Frame

\* as_input_output: ExpandedInputOutput's constructor runs output()
as_input_output(t) == InCall(t, "as_input_output") /\ set_output_pins_body(t) /\ Frame

(***************************************************************************)
(* Calling and returning.                                                  *)
(***************************************************************************)
\* what the call hands back: the byte read, and for acknowledge_interrupt
\* the two out-parameters (ret: pin, ret2: values)
RetOf(r) ==
    CASE r.op \in GetterOps            -> r.value
      [] r.op = "read"                  -> And(r.value, r.arg)
      [] r.op = "acknowledge_interrupt" -> r.pin
      [] OTHER                          -> 0

Ret2Of(r) == IF r.op = "acknowledge_interrupt" THEN r.value ELSE 0

\* an idle thread calls one of the operations of menu, max calls at most
Invoke(t, menu, max) ==
    /\ th[t].pc = "idle"
    /\ Len(hist[t]) < max
    /\ \E c \in menu : th' = [th EXCEPT ![t] = Thread("call", c, chip)]
    /\ UNCHANGED <<address, freq, i2c_freq, i2c_address, chip, ptr, pins, mutex, hist>>

\* the call returns to its caller
Return(t) ==
    /\ th[t].pc = "call"
    /\ th[t].stage = 0
    /\ hist' = [hist EXCEPT ![t] = Append(@,
                   [op |-> th[t].op, arg |-> th[t].arg, val |-> th[t].val,
                    pull |-> th[t].pull, ret |-> RetOf(th[t]), ret2 |-> Ret2Of(th[t]),
                    pre |-> th[t].pre, post |-> chip, tx |-> th[t].tx])]
    /\ th' = [th EXCEPT ![t] = Idle]
    /\ UNCHANGED <<address, freq, i2c_freq, i2c_address, chip, ptr, pins, mutex>>

\* one step of any operation
Operation(t) ==
    \/ set_input_pins(t) \/ set_output_pins(t)
    \/ write_outputs(t) \/ read_outputs(t) \/ read_inputs(t)
    \/ set_input_polarity(t) \/ get_input_polarity(t)
    \/ set_pullups(t) \/ get_pullups(t)
    \/ interrupt_on_changes(t) \/ disable_interrupts(t) \/ acknowledge_interrupt(t)
    \/ ExpandedIO_read(t) \/ ExpandedIO_mode(t) \/ ExpandedIO_write(t)
    \/ ExpandedIO_output(t) \/ ExpandedIO_input(t)
    \/ as_input(t) \/ as_output(t) \/ as_input_output(t)

(***************************************************************************)
(* Specifications.                                                         *)
(***************************************************************************)
\* the register file reset() leaves, from register file c
RECURSIVE ResetFrom(_, _)
ResetFrom(c, n) ==
    LET d == ChipWrite(c, reset_reg(n), reset_value(n))
    IN  IF reset_more(n) THEN ResetFrom(d, n + 1) ELSE d

ResetChip(c) == ResetFrom(c, 1)

\* the pins an application makes outputs when it starts: none, or GP4..GP7
SetupMasks == {0, 240}

\* the register file once the expander is constructed on a chip whose
\* registers held c and the application has called set_output_pins(m)
ReadyChip(c, m) == ChipWrite(ResetChip(c), IODIR, output_bits(255, m))

\* SpecCtor: one thread constructs the expander, for any strap, frequency and
\* prior content of the chip, and then uses it
InitCtor ==
    /\ address \in 0..MaxStrap
    /\ freq \in Frequency
    /\ i2c_freq = 0
    /\ i2c_address = 0
    /\ chip \in PriorChips
    /\ ptr = 0
    /\ pins \in PinLevels
    /\ mutex = MutexFree
    /\ th = [t \in Threads |-> IF t = 1 THEN [Idle EXCEPT !.pc = "new"] ELSE Off]
    /\ hist = [t \in Threads |-> <<>>]

NextCtor ==
    \/ MCP23008(1)
    \/ reset(1)
    \/ Constructed(1)
    \/ Invoke(1, AllCalls, MaxCtorCalls)
    \/ Operation(1)
    \/ Return(1)

SpecCtor == InitCtor /\ [][NextCtor]_vars

\* the state once the expander is constructed (strap 3, 400 kHz) and set up,
\* with the threads of live idle
Ready(live) ==
    /\ address = 3
    /\ freq = Frequency_400KHz
    /\ i2c_freq = freq
    /\ i2c_address = DeviceAddress(address)
    /\ chip \in {ReadyChip(LeftoverChip, m) : m \in SetupMasks}
    /\ ptr = NextPtr(chip, IODIR)
    /\ pins \in PinLevels
    /\ mutex = MutexFree
    /\ th = [t \in Threads |-> IF t \in live THEN Idle ELSE Off]
    /\ hist = [t \in Threads |-> <<>>]

\* Spec: one thread calls the operations of a constructed expander one after
\* the other
Init == Ready({1})

Next ==
    \/ Invoke(1, AllCalls, MaxCalls)
    \/ Operation(1)
    \/ Return(1)

Spec == Init /\ [][Next]_vars

\* SpecConc: two threads, each with a pin of its own, call concurrently the
\* read-modify-write operations of a constructed expander
ConcOps == {"set_input_pins", "set_output_pins"}

ConcCalls(pin) ==
    {Call(o, pin, 0, "-") : o \in ConcOps}
    \cup {Call("write", pin, v, "-") : v \in WriteValues}
    \cup {Call("mode", pin, 0, m) : m \in PinModes}

ConcCalls1 == ConcCalls(Pin_GP0)
ConcCalls2 == ConcCalls(Pin_GP7)

ConcCallsOf(t) == IF t = 1 THEN ConcCalls1 ELSE ConcCalls2

InitConc == Ready(Threads)

NextConc ==
    \E t \in Threads :
        \/ Invoke(t, ConcCallsOf(t), MaxConcCalls)
        \/ set_input_pins(t)
        \/ set_output_pins(t)
        \/ ExpandedIO_write(t)
        \/ ExpandedIO_mode(t)
        \/ Return(t)

SpecConc == InitConc /\ [][NextConc]_vars

\* SpecIrq: one thread configures the interrupts of a constructed expander,
\* one call after the other
IrqOps == {"interrupt_on_changes", "disable_interrupts"}

IrqCalls == {Call(o, m, 0, "-") : o \in IrqOps, m \in Masks}

InitIrq == Ready({1})

NextIrq ==
    \/ Invoke(1, IrqCalls, MaxIrqCalls)
    \/ interrupt_on_changes(1)
    \/ disable_interrupts(1)
    \/ Return(1)

SpecIrq == InitIrq /\ [][NextIrq]_vars

\* SpecPin: one thread uses an output pin handle on GP7 of a constructed
\* expander and sets the input polarity through the expander
PinHandleOps == {"as_output", "read"}
PolarityOps == {"set_input_polarity"}

PinCalls ==
    {Call(o, Pin_GP7, 0, "-") : o \in PinHandleOps}
    \cup {Call("write", Pin_GP7, v, "-") : v \in WriteValues}
    \cup {Call(o, v, 0, "-") : o \in PolarityOps, v \in Values}

InitPin == Ready({1})

NextPin ==
    \/ Invoke(1, PinCalls, MaxPinCalls)
    \/ as_output(1)
    \/ ExpandedIO_write(1)
    \/ ExpandedIO_read(1)
    \/ set_input_polarity(1)
    \/ Return(1)

SpecPin == InitPin /\ [][NextPin]_vars

\* SpecMode: two threads, each with a pin handle of its own, call mode()
\* with pull-none or pull-up concurrently
ModePulls == {"PullNone", "PullUp"}

ModeCalls(pin) == {Call("mode", pin, 0, m) : m \in ModePulls}

ModeCalls1 == ModeCalls(Pin_GP0)
ModeCalls2 == ModeCalls(Pin_GP7)

ModeCallsOf(t) == IF t = 1 THEN ModeCalls1 ELSE ModeCalls2

InitMode == Ready(Threads)

NextMode ==
    \E t \in Threads :
        \/ Invoke(t, ModeCallsOf(t), MaxModeCalls)
        \/ ExpandedIO_mode(t)
        \/ Return(t)

SpecMode == InitMode /\ [][NextMode]_vars

\* SpecLive: two threads call operations that take the mutex (mode() and
\* get_pullups()) and one that reads and writes (the single-pin write), under
\* a scheduler that lets every thread that can run do so eventually
LiveCalls(pin) ==
    {Call("mode", pin, 0, m) : m \in ModePulls}
    \cup {Call("get_pullups", 0, 0, "-"), Call("write", pin, 1, "-")}

LiveCalls1 == LiveCalls(Pin_GP0)
LiveCalls2 == LiveCalls(Pin_GP7)

LiveCallsOf(t) == IF t = 1 THEN LiveCalls1 ELSE LiveCalls2

\* every pin an input held low: the levels and the directions have no part in
\* the locking
InitLive == Ready(Threads) /\ pins = 0 /\ chip = ReadyChip(LeftoverChip, 0)

\* a step of thread t inside a call
Step(t) ==
    \/ ExpandedIO_mode(t)
    \/ get_pullups(t)
    \/ ExpandedIO_write(t)
    \/ Return(t)

NextLive ==
    \E t \in Threads :
        \/ Invoke(t, LiveCallsOf(t), MaxLiveCalls)
        \/ Step(t)

SpecLive ==
    InitLive /\ [][NextLive]_vars /\ \A t \in Threads : WF_vars(Step(t))

(***************************************************************************)
(* Properties.                                                             *)
(***************************************************************************)
\* bit k (0..7) of byte x
Bit(x, k) == (x \div (2 ^ k)) % 2

Bits == 0..7

InputOps  == {"set_input_pins", "input", "as_input"}
OutputOps == {"set_output_pins", "output", "as_output", "as_input_output"}

WriteOps == {"write"}
DirectionOps == InputOps \cup OutputOps
ReadOnlyRegisters == {INTF, INTCAP, GPIO}
WritableRegisters == {IPOL, GPINTEN, DEFVAL, INTCON, IOCON, GPPU, OLAT}
NotConstructed == {"new", "fatal"}

\* thread t has made exactly one call, one of ops, and it has returned
ReturnedOne(t, ops) ==
    th[t].pc = "idle" /\ Len(hist[t]) = 1 /\ hist[t][1].op \in ops

\* C1: when two threads have each returned from one set_input_pins or
\* set_output_pins call on disjoint pins, the direction register holds the
\* direction each of them asked for on its pin (no lost update).
C1_NoLostDirectionUpdate ==
    (\A t \in Threads : ReturnedOne(t, ConcOps))
    => \A t \in Threads :
          \A k \in Bits :
             Bit(hist[t][1].arg, k) = 1
             => Bit(chip[IODIR], k) =
                   (IF hist[t][1].op = "set_input_pins" THEN 1 ELSE 0)

\* C2: when two threads have each returned from one single-pin write on
\* disjoint pins, the output latch holds on each pin the value its thread
\* wrote (no lost update).
C2_NoLostOutputUpdate ==
    (\A t \in Threads : ReturnedOne(t, WriteOps))
    => \A t \in Threads :
          \A k \in Bits :
             Bit(hist[t][1].arg, k) = 1
             => Bit(chip[OLAT], k) = (IF hist[t][1].val # 0 THEN 1 ELSE 0)

\* C3: a bus transaction that is not acknowledged is the last transaction of
\* the operation that issued it and leaves its thread stopped in the fatal
\* error (no retry, nothing after it), and no operation that returned
\* normally has a failed transaction.
C3_FailureIsFatal ==
    \A t \in Threads :
        /\ \A i \in 1..Len(th[t].tx) :
              ~th[t].tx[i].ack => (i = Len(th[t].tx) /\ th[t].pc = "fatal")
        /\ \A j \in 1..Len(hist[t]) :
              \A i \in 1..Len(hist[t][j].tx) : hist[t][j].tx[i].ack

\* a read of the direction register failed inside set_input_pins: the select
\* was acknowledged, the read was not, and no write followed
C3_Witness ==
    /\ th[1].pc = "fatal"
    /\ th[1].op = "set_input_pins"
    /\ Len(th[1].tx) = 2
    /\ th[1].tx[1].kind = "select" /\ th[1].tx[1].ack
    /\ th[1].tx[2].kind = "read" /\ ~th[1].tx[2].ack

\* the constructor has returned and no operation has been called yet
JustConstructed == th[1].pc = "idle" /\ hist[1] = <<>>

\* C4 as stated: after construction the direction register reads 0xFF and
\* each of the other ten registers reads zero.
C4_AllOthersReadZero ==
    JustConstructed
    => /\ ChipRead(chip, pins, IODIR) = 255
       /\ \A r \in WritableRegisters \cup ReadOnlyRegisters :
             ChipRead(chip, pins, r) = 0

\* C4 (amended): after construction the direction register reads 0xFF and
\* each writable register (polarity, interrupt-enable, default-compare-value,
\* interrupt-control, chip-configuration, pull-up-enable, output-latch) reads
\* zero; the read-only interrupt-flag, interrupt-capture and input-state
\* registers read what the chip and the pins hold.
C4_WritableReadZero ==
    JustConstructed
    => /\ ChipRead(chip, pins, IODIR) = 255
       /\ \A r \in WritableRegisters : ChipRead(chip, pins, r) = 0

\* constructed on a chip that held other values, with pins driven high
C4_Witness ==
    /\ JustConstructed
    /\ chip[INTCAP] = LeftoverChip[INTCAP]
    /\ pins = 165
    /\ ChipRead(chip, pins, GPIO) = 165

\* C5: with an address strap above 7 the constructor ends in the fatal error
\* before it sets the bus frequency and before any bus transaction: the
\* thread is before or in the error, i2c.frequency was not called, nothing
\* was sent and the chip's registers are as they were.
C5_BadStrapStopsConstruction ==
    address > 7
    => /\ th[1].pc \in NotConstructed
       /\ i2c_freq = 0
       /\ th[1].tx = <<>>
       /\ hist[1] = <<>>
       /\ chip \in PriorChips

C5_Witness == address = 8 /\ th[1].pc = "fatal"

\* every bus transaction thread t has issued
TxOf(t) ==
    {th[t].tx[i] : i \in 1..Len(th[t].tx)}
    \cup UNION {{hist[t][j].tx[i] : i \in 1..Len(hist[t][j].tx)} : j \in 1..Len(hist[t])}

\* C6: for a strap s in 0..7, from the constructor on the device address is
\* 0x40 + 2*s (0x40 | (s << 1)) and every bus transaction is sent to it.
C6_DeviceAddress ==
    (address <= 7 /\ th[1].pc # "new")
    => /\ i2c_address = 64 + 2 * address
       /\ \A x \in TxOf(1) : x.addr = 64 + 2 * address

\* strap 3: the two transactions of a read_outputs call after construction
\* were sent to 0x46
C6_Witness ==
    /\ address = 3
    /\ Len(hist[1]) = 1
    /\ hist[1][1].op = "read_outputs"
    /\ \A x \in TxOf(1) : x.addr = 70
    /\ Cardinality(TxOf(1)) = 2

\* C7: two set_output_pins calls in a row leave the direction register as it
\* was before the first with the bits of both masks cleared; two
\* set_input_pins calls in a row leave it with the bits of both masks set;
\* every other bit is as before.
C7_Additive ==
    \A i \in 1..(Len(hist[1]) - 1) :
        LET f == hist[1][i]
            g == hist[1][i + 1]
        IN  /\ (f.op = "set_output_pins" /\ g.op = "set_output_pins")
               => \A k \in Bits :
                     Bit(g.post[IODIR], k) =
                        (IF Bit(f.arg, k) = 1 \/ Bit(g.arg, k) = 1
                         THEN 0 ELSE Bit(f.pre[IODIR], k))
            /\ (f.op = "set_input_pins" /\ g.op = "set_input_pins")
               => \A k \in Bits :
                     Bit(g.post[IODIR], k) =
                        (IF Bit(f.arg, k) = 1 \/ Bit(g.arg, k) = 1
                         THEN 1 ELSE Bit(f.pre[IODIR], k))

\* set_output_pins(GP0) then set_output_pins(GP7) from 0x0F: 0x0E
C7_Witness ==
    /\ Len(hist[1]) = 2
    /\ hist[1][1].op = "set_output_pins" /\ hist[1][1].arg = Pin_GP0
    /\ hist[1][2].op = "set_output_pins" /\ hist[1][2].arg = Pin_GP7
    /\ hist[1][1].pre[IODIR] = 15
    /\ hist[1][2].post[IODIR] = 14

\* C8: of two direction operations in a row on the same pins (through the
\* expander or through pin handles), the later one decides: the direction
\* bits of the pins are set (input) if it was an input operation and cleared
\* (output) if it was an output operation.
C8_LaterDirectionWins ==
    \A i \in 1..(Len(hist[1]) - 1) :
        LET f == hist[1][i]
            g == hist[1][i + 1]
        IN  (f.op \in DirectionOps /\ g.op \in DirectionOps /\ f.arg = g.arg)
            => \A k \in Bits :
                  Bit(g.arg, k) = 1
                  => Bit(g.post[IODIR], k) = (IF g.op \in InputOps THEN 1 ELSE 0)

\* set_output_pins(0x81) made the pins outputs, set_input_pins(0x81) inputs
C8_Witness ==
    /\ Len(hist[1]) = 2
    /\ hist[1][1].op = "set_output_pins" /\ hist[1][1].arg = 129
    /\ hist[1][2].op = "set_input_pins" /\ hist[1][2].arg = 129
    /\ Bit(hist[1][1].post[IODIR], 0) = 0 /\ Bit(hist[1][1].post[IODIR], 7) = 0
    /\ Bit(hist[1][2].post[IODIR], 0) = 1 /\ Bit(hist[1][2].post[IODIR], 7) = 1

\* C9: read_outputs right after write_outputs(v) returns v, and
\* write_outputs(v) leaves the output latch equal to v whatever it held.
C9_WriteReadOutputs ==
    \A i \in 1..Len(hist[1]) :
        /\ hist[1][i].op = "write_outputs" => hist[1][i].post[OLAT] = hist[1][i].arg
        /\ (i < Len(hist[1]) /\ hist[1][i].op = "write_outputs"
            /\ hist[1][i + 1].op = "read_outputs")
           => hist[1][i + 1].ret = hist[1][i].arg

\* write_outputs(0xA5) then read_outputs with every pin an input held low
C9_Witness ==
    /\ Len(hist[1]) = 2
    /\ hist[1][1].op = "write_outputs" /\ hist[1][1].arg = 165
    /\ hist[1][2].op = "read_outputs" /\ hist[1][2].ret = 165
    /\ pins = 0
    /\ chip[IODIR] = 255

\* C10: a mode(PullDown) call stops in the assertion: it is never past the
\* assertion, has issued no bus transaction, has not changed the pull-up
\* register, does not hold the mutex, and never returns.
C10_PullDownAsserts ==
    \A t \in Threads :
        /\ (th[t].op = "mode" /\ th[t].pull = "PullDown")
           => /\ (th[t].pc = "assert" \/ (th[t].pc = "call" /\ th[t].stage = 1))
              /\ th[t].tx = <<>>
              /\ chip[GPPU] = th[t].pre[GPPU]
              /\ mutex.owner # t
        /\ \A j \in 1..Len(hist[t]) :
              ~(hist[t][j].op = "mode" /\ hist[t][j].pull = "PullDown")

C10_Witness ==
    /\ th[1].pc = "assert"
    /\ th[1].op = "mode" /\ th[1].pull = "PullDown"
    /\ Len(hist[1]) = 1 /\ hist[1][1].op = "set_pullups" /\ hist[1][1].arg = 165
    /\ chip[GPPU] = 165

\* C11: interrupt_on_changes(p) followed immediately by disable_interrupts(p)
\* leaves the bits of p cleared in the interrupt-enable register and in the
\* interrupt-control register, and the bits outside p of both registers as
\* they were before the two calls.
C11_EnableThenDisable ==
    \A i \in 1..(Len(hist[1]) - 1) :
        LET f == hist[1][i]
            g == hist[1][i + 1]
        IN  (f.op = "interrupt_on_changes" /\ g.op = "disable_interrupts"
             /\ f.arg = g.arg)
            => \A k \in Bits :
                  IF Bit(g.arg, k) = 1
                  THEN /\ Bit(g.post[GPINTEN], k) = 0
                       /\ Bit(g.post[INTCON], k) = 0
                  ELSE /\ Bit(g.post[GPINTEN], k) = Bit(f.pre[GPINTEN], k)
                       /\ Bit(g.post[INTCON], k) = Bit(f.pre[INTCON], k)

\* with GP7's interrupt enabled before: interrupt_on_changes(GP0) enabled
\* GP0 too, disable_interrupts(GP0) left GP7 alone enabled
C11_Witness ==
    /\ Len(hist[1]) = 3
    /\ hist[1][1].op = "interrupt_on_changes" /\ hist[1][1].arg = Pin_GP7
    /\ hist[1][2].op = "interrupt_on_changes" /\ hist[1][2].arg = Pin_GP0
    /\ hist[1][3].op = "disable_interrupts" /\ hist[1][3].arg = Pin_GP0
    /\ hist[1][2].post[GPINTEN] = 129
    /\ hist[1][3].post[GPINTEN] = 128

\* C12: read() on an output pin handle right after write(v) on it is
\* non-zero exactly when v is non-zero (the last value commanded, from the
\* output latch), the pin being an output all along.
C12_ReadReturnsCommanded ==
    \A i \in 1..(Len(hist[1]) - 1) :
        LET f == hist[1][i]
            g == hist[1][i + 1]
        IN  (f.op = "write" /\ g.op = "read" /\ f.arg = g.arg
             /\ And(f.pre[IODIR], f.arg) = 0)
            => ((g.ret # 0) <=> (f.val # 0))

HandleInputOps  == {"as_input", "input"}
HandleOutputOps == {"as_output", "as_input_output", "output"}
HandleDirectionOps == HandleInputOps \cup HandleOutputOps

\* C13: creating a pin handle for bit b, and input() or output() on a
\* handle, changes bit b of the direction register and no other: an Output
\* or InputOutput handle and output() leave bit b cleared, an Input handle
\* and input() leave it set.
C13_HandleDirection ==
    \A i \in 1..Len(hist[1]) :
        LET r == hist[1][i]
        IN  r.op \in HandleDirectionOps
            => \A k \in Bits :
                  Bit(r.post[IODIR], k) =
                     (IF Bit(r.arg, k) = 1
                      THEN (IF r.op \in HandleInputOps THEN 1 ELSE 0)
                      ELSE Bit(r.pre[IODIR], k))

\* an InputOutput handle created on GP0 of 0x0F made it an output (0x0E),
\* input() on the handle made it an input again
C13_Witness ==
    /\ Len(hist[1]) = 2
    /\ hist[1][1].op = "as_input_output" /\ hist[1][1].arg = Pin_GP0
    /\ hist[1][1].pre[IODIR] = 15 /\ hist[1][1].post[IODIR] = 14
    /\ hist[1][2].op = "input" /\ hist[1][2].arg = Pin_GP0
    /\ hist[1][2].post[IODIR] = 15

\* the transactions of an acknowledge_interrupt call, in order
AckKinds == <<"select", "read", "select", "read">>
AckRegs  == <<INTF, INTF, INTCAP, INTCAP>>

\* C14: acknowledge_interrupt reads two registers, interrupt-flag first and
\* interrupt-capture second, and writes none: what it has sent at any moment
\* is a prefix of select INTF, read INTF, select INTCAP, read INTCAP, and
\* when it returns it has sent all four and hands back the flag value as the
\* pin and the capture value as the pin states.
C14_AcknowledgeOrder ==
    /\ th[1].op = "acknowledge_interrupt"
       => /\ Len(th[1].tx) <= 4
          /\ \A n \in 1..Len(th[1].tx) :
                /\ th[1].tx[n].kind = AckKinds[n]
                /\ th[1].tx[n].reg = AckRegs[n]
    /\ \A i \in 1..Len(hist[1]) :
          LET r == hist[1][i]
          IN  r.op = "acknowledge_interrupt"
              => /\ Len(r.tx) = 4
                 /\ \A n \in 1..4 :
                       r.tx[n].kind = AckKinds[n] /\ r.tx[n].reg = AckRegs[n]
                 /\ r.ret = r.tx[2].val /\ r.ret = r.pre[INTF]
                 /\ r.ret2 = r.tx[4].val /\ r.ret2 = r.pre[INTCAP]

\* GP7 had raised the interrupt: the call returned pin 0x80 and states 0x81,
\* and the read of the capture register cleared the flag
C14_Witness ==
    /\ Len(hist[1]) = 1
    /\ hist[1][1].op = "acknowledge_interrupt"
    /\ hist[1][1].ret = 128 /\ hist[1][1].ret2 = 129
    /\ hist[1][1].post[INTF] = 0

\* the statements of mode() from the read of the pull-up register to the
\* unlock
ModeLockedStages == 3..5

\* the last call of thread t that returned
LastOf(t) == hist[t][Len(hist[t])]

\* every thread is idle and has made a call
AllReturned == \A t \in Threads : th[t].pc = "idle" /\ Len(hist[t]) >= 1

\* C15: a thread inside mode(), from the read of the pull-up register to the
\* unlock, holds the mutex; and when the two threads, calling mode() on
\* disjoint pins, have all returned, the pull-up register holds on each pin
\* what its thread asked for last (set for pull-up, cleared for pull-none).
C15_NoLostPullupUpdate ==
    /\ \A t \in Threads :
          (InCall(t, "mode") /\ th[t].stage \in ModeLockedStages)
          => mutex.owner = t
    /\ AllReturned
       => \A t \in Threads :
             \A k \in Bits :
                Bit(LastOf(t).arg, k) = 1
                => Bit(chip[GPPU], k) =
                      (IF LastOf(t).pull = "PullUp" THEN 1 ELSE 0)

\* thread 2 had begun mode(PullNone) on GP7 before thread 1's mode(PullUp) on
\* GP0 wrote the register, and both bits are as asked
C15_Witness ==
    /\ AllReturned
    /\ Len(hist[1]) = 1 /\ Len(hist[2]) = 1
    /\ hist[1][1].pull = "PullUp" /\ hist[2][1].pull = "PullNone"
    /\ hist[2][1].pre[GPPU] = 0
    /\ hist[1][1].post[GPPU] = 1
    /\ chip[GPPU] = 1

\* the constructor is in reset(), or stopped in it
InReset == th[1].op = "-" /\ (th[1].pc = "reset" \/ (th[1].pc = "fatal" /\ address <= 7))

\* the loop of reset() has ended and the constructor is about to return
ResetDone ==
    th[1].pc = "reset" /\ ~(th[1].stage = 1 \/ reset_more(th[1].stage - 1))

\* C16: the reset done at construction issues eleven register writes, each
\* a transaction of its own, in this order: the direction register with
\* 0xFF, then the registers 0x01 to 0x0A in ascending order with 0; what it
\* has sent at any moment is a prefix of that sequence, it ends only when
\* all eleven were sent, and the direction register holds 0xFF from the
\* first acknowledged write on.
C16_ResetSequence ==
    /\ InReset
       => /\ Len(th[1].tx) <= 11
          /\ \A n \in 1..Len(th[1].tx) :
                /\ th[1].tx[n].kind = "write"
                /\ th[1].tx[n].reg = n - 1
                /\ th[1].tx[n].val = (IF n = 1 THEN 255 ELSE 0)
          /\ (Len(th[1].tx) >= 1 /\ th[1].tx[1].ack) => chip[IODIR] = 255
    /\ ResetDone
       => /\ Len(th[1].tx) = 11
          /\ \A n \in 1..11 : th[1].tx[n].ack

\* reset() has ended on a chip that held other values: eleven writes, the
\* last one to the output latch
C16_Witness ==
    /\ ResetDone
    /\ Len(th[1].tx) = 11
    /\ th[1].tx[1].reg = IODIR /\ th[1].tx[1].val = 255
    /\ th[1].tx[11].reg = OLAT /\ th[1].tx[11].val = 0
    /\ chip[INTCAP] = LeftoverChip[INTCAP]

\* C17: with no concurrent operation, a single-pin write through a pin
\* handle on bit b leaves bit b of the output latch at 1 when the value
\* written is non-zero and at 0 when it is zero, and the other seven bits of
\* the latch as they were before the call.
C17_WriteOneBit ==
    \A i \in 1..Len(hist[1]) :
        LET r == hist[1][i]
        IN  r.op = "write"
            => \A k \in Bits :
                  Bit(r.post[OLAT], k) =
                     (IF Bit(r.arg, k) = 1
                      THEN (IF r.val # 0 THEN 1 ELSE 0)
                      ELSE Bit(r.pre[OLAT], k))

\* write_outputs(0xA5) then write(0) on the GP0 handle: the latch holds 0xA4
C17_Witness ==
    /\ Len(hist[1]) = 2
    /\ hist[1][1].op = "write_outputs" /\ hist[1][1].arg = 165
    /\ hist[1][2].op = "write" /\ hist[1][2].arg = Pin_GP0 /\ hist[1][2].val = 0
    /\ hist[1][2].pre[OLAT] = 165
    /\ hist[1][2].post[OLAT] = 164

\* C18: mode(pull-up) through a pin handle on bit b leaves bit b of the
\* pull-up register set, mode(pull-none) leaves it cleared, and the other
\* seven bits are as before the call; a second call with the same mode
\* leaves the register as the first did.
C18_ModeOneBit ==
    \A i \in 1..Len(hist[1]) :
        LET r == hist[1][i]
        IN  /\ r.op = "mode"
               => \A k \in Bits :
                     Bit(r.post[GPPU], k) =
                        (IF Bit(r.arg, k) = 1
                         THEN (IF r.pull = "PullUp" THEN 1 ELSE 0)
                         ELSE Bit(r.pre[GPPU], k))
            /\ (i > 1 /\ r.op = "mode" /\ hist[1][i - 1].op = "mode"
                /\ hist[1][i - 1].arg = r.arg /\ hist[1][i - 1].pull = r.pull)
               => r.post[GPPU] = hist[1][i - 1].post[GPPU]

\* set_pullups(0xA5) then mode(pull-none) on the GP0 handle: 0xA4
C18_Witness ==
    /\ Len(hist[1]) = 2
    /\ hist[1][1].op = "set_pullups" /\ hist[1][1].arg = 165
    /\ hist[1][2].op = "mode" /\ hist[1][2].arg = Pin_GP0
    /\ hist[1][2].pull = "PullNone"
    /\ hist[1][2].post[GPPU] = 164

\* C19: a register read is atomic on the bus: no transaction of another
\* thread comes between the register-select write of a read_register call
\* and its one-byte read, so the byte read is the content of the register
\* the preceding select of the same call named.
C19_ReadIsAtomic ==
    \A t \in Threads :
        \A n \in 2..Len(th[t].tx) :
            (th[t].tx[n].kind = "read" /\ th[t].tx[n].ack)
            => /\ th[t].tx[n - 1].kind = "select"
               /\ th[t].tx[n].reg = th[t].tx[n - 1].reg

\* no thread has stopped on a transaction that was not acknowledged
BusAcknowledges == \A t \in Threads : th[t].pc # "fatal"

\* no operation is in progress
NoneInProgress == \A t \in Threads : th[t].pc = "idle"

\* mode() is about to call get_pullups, whose read_register locks again
ModeRelocks(t) == InCall(t, "mode") /\ th[t].stage = 3 /\ th[t].rr = "-"

\* C20: deadlock freedom.  The mutex is free whenever no operation is in
\* progress; mode(), holding the mutex, can take it again in the register
\* read of get_pullups; and with a bus that acknowledges every transaction
\* and a fair scheduler every call eventually returns.
C20_EveryCallReturns ==
    /\ [](NoneInProgress => mutex = MutexFree)
    /\ [](\A t \in Threads : ModeRelocks(t) => (mutex.owner = t /\ CanLock(t)))
    /\ ([]BusAcknowledges)
       => \A t \in Threads : (th[t].pc = "call") ~> (th[t].pc = "idle")

\* both threads called mode() and both calls have returned; the mutex is
\* free
C20_Witness ==
    /\ NoneInProgress
    /\ \A t \in Threads : Len(hist[t]) = 1 /\ hist[t][1].op = "mode"
    /\ mutex = MutexFree
    /\ chip[GPPU] = 129

ReadKinds == {"select", "read"}

\* thread t stopped in error() inside read_register: its last transaction,
\* the select or the one-byte read, was not acknowledged
ReadFailed(t) ==
    /\ th[t].pc = "fatal"
    /\ Len(th[t].tx) >= 1
    /\ th[t].tx[Len(th[t].tx)].kind \in ReadKinds

\* how many times thread t holds the mutex
HeldBy(t) == IF mutex.owner = t THEN mutex.count ELSE 0

\* C21: when a register read has failed on a missing acknowledgment, the
\* mutex that read took has been released: the thread holds the mutex no
\* more often than before the read (not at all, or once inside mode(), which
\* took it itself), so other threads are not blocked by the failed call.
C21_FailedReadReleasesMutex ==
    \A t \in Threads :
        ReadFailed(t) => HeldBy(t) = (IF th[t].op = "mode" THEN 1 ELSE 0)

PullupOps   == {"set_pullups", "mode"}
LatchOps    == {"write_outputs", "write"}

DirectionRegs == {IODIR}
PullupRegs    == {GPPU}
PolarityRegs  == {IPOL}
InterruptRegs == {INTCON, GPINTEN}
EnableRegs    == {GPINTEN}
PortRegs      == {GPIO}
NoRegs        == {}

\* the registers operation op is about: those it may address in a write
WrittenBy(op) ==
    CASE op \in DirectionOps           -> DirectionRegs
      [] op \in PullupOps              -> PullupRegs
      [] op \in PolarityOps            -> PolarityRegs
      [] op = "interrupt_on_changes"   -> InterruptRegs
      [] op = "disable_interrupts"     -> EnableRegs
      [] op \in LatchOps               -> PortRegs
      [] OTHER                         -> NoRegs

DirectionChanged == {IODIR, GPIO}
PolarityChanged  == {IPOL, GPIO}
LatchChanged     == {OLAT, GPIO}

\* the registers that may read differently after op: those it writes, a
\* write addressed to the port being a write of the output latch, and with
\* the direction, the polarity or the latch also the input-state register,
\* which reads the port through the polarity
ChangedBy(op) ==
    CASE op \in DirectionOps -> DirectionChanged
      [] op \in PolarityOps  -> PolarityChanged
      [] op \in LatchOps     -> LatchChanged
      [] OTHER               -> WrittenBy(op)

\* the registers the driver can set, and the input-state register
ConfigRegisters == WritableRegisters \cup DirectionRegs
FramedRegisters == ConfigRegisters \cup PortRegs

\* every write of the transactions tx is addressed to a register of op
WritesOnly(op, tx) ==
    \A n \in 1..Len(tx) : tx[n].kind = "write" => tx[n].reg \in WrittenBy(op)

\* register reg reads the same in register files c and d
ReadsSame(c, d, reg) == ChipRead(c, pins, reg) = ChipRead(d, pins, reg)

\* a call of thread 1 has returned and the thread has not called again:
\* every call that returns passes through such a state, in which it is the
\* last of the history
JustReturned == th[1].pc = "idle" /\ Len(hist[1]) >= 1

\* C22 as stated: every operation addresses its writes only to the
\* registers it is about (the read operations write nothing), and every
\* other register reads after the call what it read before (for
\* write_outputs and the single-pin write the output value is the port and
\* its latch).
C22_AllOthersUnchanged ==
    /\ th[1].pc # "idle" => WritesOnly(th[1].op, th[1].tx)
    /\ JustReturned
       => LET r == LastOf(1)
          IN  /\ WritesOnly(r.op, r.tx)
              /\ \A reg \in Registers \ (WrittenBy(r.op) \cup
                                          (IF r.op \in LatchOps THEN LatchChanged
                                           ELSE NoRegs)) :
                    ReadsSame(r.pre, r.post, reg)

\* C22 (amended): every operation addresses its writes only to the
\* registers it is about (the read operations write nothing), and every
\* other register the driver can set reads after the call what it read
\* before.  The input-state register reads the same after the call unless
\* the operation is about the direction, the polarity or the output value:
\* it shows the port through the polarity, so those operations change what
\* it reads without addressing it.  Nothing is said of interrupt-flag and
\* interrupt-capture, which the chip maintains.
C22_ConfigOthersUnchanged ==
    /\ th[1].pc # "idle" => WritesOnly(th[1].op, th[1].tx)
    /\ JustReturned
       => LET r == LastOf(1)
          IN  /\ WritesOnly(r.op, r.tx)
              /\ \A reg \in FramedRegisters \ ChangedBy(r.op) :
                    ReadsSame(r.pre, r.post, reg)

\* set_pullups(0xA5) changed the pull-up register alone; then
\* set_input_polarity(0xFF), with every pin an input held at 0xA5, wrote the
\* polarity register alone and the input-state register reads 0x5A for 0xA5
C22_Witness ==
    /\ Len(hist[1]) = 2
    /\ hist[1][1].op = "set_pullups" /\ hist[1][1].arg = 165
    /\ hist[1][1].post[GPPU] = 165
    /\ ReadsSame(hist[1][1].pre, hist[1][1].post, GPIO)
    /\ hist[1][2].op = "set_input_polarity" /\ hist[1][2].arg = 255
    /\ chip[IODIR] = 255 /\ pins = 165
    /\ hist[1][2].post[GPPU] = 165
    /\ ChipRead(hist[1][2].pre, pins, GPIO) = 165
    /\ ChipRead(hist[1][2].post, pins, GPIO) = 90

=============================================================================
